---- MODULE Spec2Model ----
(***************************************************************************)
(* The systemd service controller of service/systemd/service.go.          *)
(*                                                                         *)
(* One Service value (name "foo") is driven by callers against a backend   *)
(* (the dbusAPI connection) and the filesystem.  Every backend call and    *)
(* every filesystem call is one step that may fail; the calls of Install,  *)
(* Start, Stop, Remove and StopAndRemove are sequences of such steps.      *)
(* Strings are sequences of characters where the code looks inside them    *)
(* (unit names) and sequences of tokens where it only compares them.       *)
(***************************************************************************)
EXTENDS Integers, Sequences, FiniteSets, TLC

\* ------------------------------------------------------------------ bounds
\* Number of distinct one-line commands a configuration may name.
NumCmds == 1
\* Number of distinct multi-line (inline script) commands.
NumScripts == 2

\* ------------------------------------------------------------- vocabulary
Nil == <<>>
Procs == {1, 2}
None == ""

\* The suffix ListServices filters on, and NewService appends to the name.
Suffix == <<".", "s", "e", "r", "v", "i", "c", "e">>
\* The name the Service was constructed with.
Name == <<"f", "o", "o">>
\* confName := name + ".service"; UnitName is the same string.
UnitName == Name \o Suffix
\* path.Join(s.Dirname, "exec-start.sh"), as a command token.
ScriptPath == 0
\* path.Join(s.Dirname, s.ConfName), the key of the unit file on disk.
ConfPath == "foo.service"
\* The key of the script file on disk.
ScriptFile == "exec-start.sh"

HasSuffix(s, suf) ==
    /\ Len(s) >= Len(suf)
    /\ SubSeq(s, Len(s) - Len(suf) + 1, Len(s)) = suf

TrimSuffix(s, suf) ==
    IF HasSuffix(s, suf) THEN SubSeq(s, 1, Len(s) - Len(suf)) ELSE s

\* ---------------------------------------------------------- configuration
\* common.Conf: ExecStart is a sequence of lines (empty: no command, one
\* line: a command, more: an inline script); Desc a sequence of words.
ZeroConf == [Desc |-> <<>>, ExecStart |-> <<>>]
Cmds == {<<i>> : i \in 1..NumCmds}
Scripts == {<<i, i + 1>> : i \in 1..NumScripts}
\* The description the callers give their configurations.
Descs == {<<1>>}
InputConfs == [Desc : Descs, ExecStart : {<<>>} \cup Cmds \cup Scripts]

\* normalize(conf, scriptPath): an inline script becomes the script path and
\* its bytes are handed back; anything else passes through.
normalize(conf, scriptPath) ==
    IF Len(conf.ExecStart) > 1
    THEN [conf |-> [conf EXCEPT !.ExecStart = <<scriptPath>>],
          data |-> <<conf.ExecStart>>]
    ELSE [conf |-> conf, data |-> Nil]

\* validate(name, conf): nil iff the executable reference is present.
validate(name, conf) == conf.ExecStart # <<>>

\* serialize(unitName, conf): the unit file as a list of options, or Nil
\* when the configuration does not validate.
serialize(unitName, conf) ==
    IF ~validate(unitName, conf) THEN Nil
    ELSE << [Section |-> "Unit", Name |-> "Description", Value |-> conf.Desc],
            [Section |-> "Service", Name |-> "ExecStart", Value |-> conf.ExecStart] >>

RECURSIVE deserializeFrom(_, _)
deserializeFrom(opts, conf) ==
    IF opts = <<>> THEN conf
    ELSE LET o == Head(opts)
             next == IF o.Section = "Unit" /\ o.Name = "Description"
                       THEN [conf EXCEPT !.Desc = o.Value]
                     ELSE IF o.Section = "Service" /\ o.Name = "ExecStart"
                       THEN [conf EXCEPT !.ExecStart = o.Value]
                     ELSE conf
         IN deserializeFrom(Tail(opts), next)

\* deserializeOptions(opts)
deserializeOptions(opts) == deserializeFrom(opts, ZeroConf)

\* Longest unit list a backend reports when ListServices is taken alone.
MaxUnits == 3

\* ------------------------------------------------------------------ state
VARIABLES
    Conf,         \* s.Service.Conf
    Script,       \* s.Script (Nil: no script)
    others,       \* backend: the units of other services, in list order
    enabled,      \* backend: our unit file is enabled (the unit is listed)
    activeState,  \* backend: ActiveState of our unit
    liveOpts,     \* backend: the options of our unit as loaded (Nil: none)
    dirExists,    \* filesystem: s.Dirname exists
    files,        \* filesystem: contents of the files in s.Dirname
    open,         \* number of backend connections open
    op,           \* per caller: the method being run
    arg,          \* per caller: the argument of UpdateConfig
    pc,           \* per caller: position in the method
    result,       \* per caller: what the call returned
    log,          \* per caller: backend and filesystem calls of this call
    pre,          \* per caller: the backend's view of our unit at call entry
    hist,         \* per caller: 1 after a successful Install, 2 after an
                  \* UpdateConfig that followed it and changed the Service
    ret,          \* per caller: what the last query returned
    overlap,      \* a call was entered while another caller's call ran
    job,          \* per caller: start/stop job accepted by the backend
    ch            \* per caller: statusCh (None: nothing sent)

ctl == <<Conf, Script>>
backend == <<others, enabled, activeState, liveOpts>>
fsys == <<dirExists, files>>
jobs == <<job, ch>>
calls == <<op, arg, pc, result, log, pre, hist, ret, overlap>>
vars == <<Conf, Script, others, enabled, activeState, liveOpts, dirExists,
          files, open, op, arg, pc, result, log, pre, hist, ret, overlap,
          job, ch>>

NoFiles == [f \in {ConfPath, ScriptFile} |-> Nil]

\* A configuration an earlier Service value may have installed.
PriorConf == [Desc |-> <<2>>, ExecStart |-> <<1>>]

\* The units of other services the backend lists: another service, a
\* mount unit of our name and a unit named like us without the suffix.
OtherUnits ==
    << [Name |-> <<"b", "a", "r">> \o Suffix, LoadState |-> "loaded",
        ActiveState |-> "active"],
       [Name |-> Name \o <<".", "m", "o", "u", "n", "t">>,
        LoadState |-> "loaded", ActiveState |-> "active"],
       [Name |-> Name, LoadState |-> "loaded", ActiveState |-> "active"] >>

\* No query has returned: false and no names.
NoRet == [val |-> FALSE, names |-> <<>>]

Snapshot ==
    [enabled |-> enabled, activeState |-> activeState, liveOpts |-> liveOpts]

\* conn.ListUnits()
ListUnits ==
    others \o (IF enabled
               THEN << [Name |-> UnitName, LoadState |-> "loaded",
                        ActiveState |-> activeState] >>
               ELSE << >>)

\* ------------------------------------------------------- pure code helpers
\* Mutant of ServiceNames: every unit is kept, its suffix trimmed if any.
ServiceNames_KeepAll(units) ==
    [i \in 1..Len(units) |-> TrimSuffix(units[i].Name, Suffix)]

RECURSIVE ServiceNames(_)
\* The loop of ListServices: keep the names ending in ".service", trimmed.
ServiceNames(units) ==
    IF units = <<>> THEN <<>>
    ELSE IF ~HasSuffix(Head(units).Name, Suffix)
         THEN ServiceNames(Tail(units))
         ELSE <<TrimSuffix(Head(units).Name, Suffix)>> \o ServiceNames(Tail(units))

\* The loop of Installed over the names ListServices returned.
InstalledIn(names) == \E i \in 1..Len(names) : names[i] = Name

\* The loop of Running over the units ListUnits returned: the first unit of
\* our name decides.
RunningIn(units) ==
    LET hits == {i \in 1..Len(units) : units[i].Name = UnitName}
    IN IF hits = {} THEN FALSE
       ELSE LET u == units[CHOOSE i \in hits : \A j \in hits : i <= j]
            IN u.LoadState = "loaded" /\ u.ActiveState = "active"

\* reflect.DeepEqual(s.Service.Conf, conf) in check.
DeepEqual(a, b) == a = b

\* status != "done" is the failure test of Start and Stop.
IsDone(status) == status = "done"

\* ---- what a call returns
Pending == [kind |-> None, msg |-> <<>>]
Ok == [kind |-> "ok", msg |-> <<>>]
\* errors.Trace(err) of an error of the backend or the filesystem.
ErrTrace == [kind |-> "error", msg |-> <<"i", "o">>]
\* errors.NotFoundf("service " + s.Service.Name)
ErrNotFound ==
    [kind |-> "notfound",
     msg |-> <<"s", "e", "r", "v", "i", "c", "e", " ">> \o Name
             \o <<" ", "n", "o", "t", " ", "f", "o", "u", "n", "d">>]
\* errors.Errorf("failed to start service %s", s.Service.Name)
ErrStart ==
    [kind |-> "error",
     msg |-> <<"f", "a", "i", "l", "e", "d", " ", "t", "o", " ", "s", "t", "a", "r", "t",
               " ", "s", "e", "r", "v", "i", "c", "e", " ">> \o Name]
\* errors.Errorf("failed to stop service %s", s.Service.Name)
ErrStop ==
    [kind |-> "error",
     msg |-> <<"f", "a", "i", "l", "e", "d", " ", "t", "o", " ", "s", "t", "o", "p",
               " ", "s", "e", "r", "v", "i", "c", "e", " ">> \o Name]

\* ---- the record of a call made to the backend or the filesystem
\* by: the function that made it; ev: the call; ok: it succeeded; val: the
\* completion value received (recv only).
Ev(by, e, ok) == [by |-> by, ev |-> e, ok |-> ok, val |-> None]
Recv(by, v) == [by |-> by, ev |-> "recv", ok |-> IsDone(v), val |-> v]

\* ListServices(): newConn, conn.ListUnits(), the suffix filter.
ListServicesOutcomes ==
    { [evs |-> <<Ev("ListServices", "newConn", FALSE)>>, err |-> TRUE, names |-> <<>>],
      [evs |-> <<Ev("ListServices", "newConn", TRUE), Ev("ListServices", "ListUnits", FALSE)>>,
       err |-> TRUE, names |-> <<>>],
      [evs |-> <<Ev("ListServices", "newConn", TRUE), Ev("ListServices", "ListUnits", TRUE)>>,
       err |-> FALSE, names |-> ServiceNames(ListUnits)] }

\* Installed(): any error of ListServices is false.
InstalledOutcomes ==
    { [evs |-> o.evs, val |-> IF o.err THEN FALSE ELSE InstalledIn(o.names)] :
        o \in ListServicesOutcomes }

\* Running(): ListUnits over a fresh connection; any error is false.
RunningOutcomes ==
    { [evs |-> <<Ev("Running", "newConn", FALSE)>>, val |-> FALSE],
      [evs |-> <<Ev("Running", "newConn", TRUE), Ev("Running", "ListUnits", FALSE)>>,
       val |-> FALSE],
      [evs |-> <<Ev("Running", "newConn", TRUE), Ev("Running", "ListUnits", TRUE)>>,
       val |-> RunningIn(ListUnits)] }

\* Mutant of ExistsOutcomes: a configuration that could be read counts as
\* the same.
ExistsOutcomes_NoCompare(conf, opts) ==
    { [evs |-> <<Ev("readConf", "newConn", FALSE)>>, val |-> FALSE],
      [evs |-> <<Ev("readConf", "newConn", TRUE), Ev("readConf", "getUnitOptions", FALSE)>>,
       val |-> FALSE] }
    \cup (IF opts = Nil THEN {}
          ELSE { [evs |-> <<Ev("readConf", "newConn", TRUE),
                           Ev("readConf", "getUnitOptions", TRUE)>>,
                  val |-> TRUE] })

\* Exists() of a Service holding conf, the backend holding the options opts
\* for its unit (Nil: it has no such unit, getUnitOptions fails): check(),
\* which is readConf and DeepEqual, any error being false.
ExistsOutcomes(conf, opts) ==
    { [evs |-> <<Ev("readConf", "newConn", FALSE)>>, val |-> FALSE],
      [evs |-> <<Ev("readConf", "newConn", TRUE), Ev("readConf", "getUnitOptions", FALSE)>>,
       val |-> FALSE] }
    \cup (IF opts = Nil THEN {}
          ELSE { [evs |-> <<Ev("readConf", "newConn", TRUE),
                           Ev("readConf", "getUnitOptions", TRUE)>>,
                  val |-> DeepEqual(conf, deserializeOptions(opts))] })

\* Mutant of AfterStop: StopAndRemove and Install go on to Remove though
\* Stop failed.
AfterStop_Continue(o, err) ==
    IF o = "Stop" THEN [pc |-> "done", res |-> err]
    ELSE [pc |-> "r_installed", res |-> Pending]

\* Where a call goes when its Stop part returns err (Ok: nil).
AfterStop(o, err) ==
    IF err # Ok THEN [pc |-> "done", res |-> err]
    ELSE IF o = "Stop" THEN [pc |-> "done", res |-> Ok]
    ELSE [pc |-> "r_installed", res |-> Pending]

\* Where a call goes when its Remove part returns err (Ok: nil).
AfterRemove(o, err) ==
    IF err # Ok THEN [pc |-> "done", res |-> err]
    ELSE IF o = "Install" THEN [pc |-> "w_mkdir", res |-> Pending]
    ELSE [pc |-> "done", res |-> Ok]

\* Mutant of AfterDisable: the error of DisableUnitFiles is dropped.
AfterDisable_Ignore(o, ok) == [pc |-> "r_rmdir", res |-> Pending]

\* Remove goes on to removeAll only when DisableUnitFiles returned no error.
AfterDisable(o, ok) ==
    IF ok THEN [pc |-> "r_rmdir", res |-> Pending] ELSE AfterRemove(o, ErrTrace)

\* Mutant of AfterCheck: the old unit is replaced even when it is the same.
AfterCheck_NoShortcut(same) == [pc |-> "s_running", res |-> Pending]

\* Install after check(): nothing to do when the configuration is the same.
AfterCheck(same) ==
    IF same THEN [pc |-> "done", res |-> Ok] ELSE [pc |-> "s_running", res |-> Pending]

\* Mutant of AfterStartInstalled: Start does not stop at a missing service.
AfterStartInstalled_Proceed(installed) == [pc |-> "st_running", res |-> Pending]

\* Start after Installed().
AfterStartInstalled(installed) ==
    IF installed THEN [pc |-> "st_running", res |-> Pending]
    ELSE [pc |-> "done", res |-> ErrNotFound]

\* Mutant of AfterStartRunning: Start starts a running unit again.
AfterStartRunning_Always(running) == [pc |-> "st_startunit", res |-> Pending]

\* Start after Running().
AfterStartRunning(running) ==
    IF running THEN [pc |-> "done", res |-> Ok]
    ELSE [pc |-> "st_startunit", res |-> Pending]

\* Mutant of StartResult: only "failed" counts as a failure.
StartResult_Lenient(status) == IF status = "failed" THEN ErrStart ELSE Ok

\* Start after the completion value arrived.
StartResult(status) == IF ~IsDone(status) THEN ErrStart ELSE Ok

\* Mutant of StopResult: only "failed" counts as a failure.
StopResult_Lenient(status) == IF status = "failed" THEN ErrStop ELSE Ok

\* Stop after the completion value arrived.
StopResult(status) == IF ~IsDone(status) THEN ErrStop ELSE Ok

\* The file a path token names inside s.Dirname.
FileAt(execStart) == IF execStart = <<ScriptPath>> THEN ScriptFile ELSE "elsewhere"

Completions == {"done", "failed", "timeout"}
Methods == {"Install", "Start", "Stop", "Remove", "StopAndRemove"}
Entry(o) ==
    CASE o = "Install" -> "i_installed"
      [] o = "Start" -> "st_installed"
      [] o = "Stop" -> "s_running"
      [] o = "StopAndRemove" -> "s_running"
      [] o = "Remove" -> "r_installed"

\* Mutant of setConf: the fields are assigned before the validation.
setConf_StoreFirst(cur, conf) ==
    LET n == normalize(conf, ScriptPath)
    IN [Conf |-> n.conf, Script |-> n.data, ok |-> validate(Name, n.conf)]

\* What setConf leaves in a Service holding cur, and whether it returned nil.
setConf(cur, conf) ==
    LET n == normalize(conf, ScriptPath)
    IN IF validate(Name, n.conf)
       THEN [Conf |-> n.conf, Script |-> n.data, ok |-> TRUE]
       ELSE [Conf |-> cur.Conf, Script |-> cur.Script, ok |-> FALSE]

\* NewService(name, conf): setConf on a Service with the zero Conf.
NewService(conf) == setConf([Conf |-> ZeroConf, Script |-> Nil], conf)

\* ------------------------------------------------------------------- init
Init ==
    /\ \E c \in InputConfs :
          /\ Conf = NewService(c).Conf
          /\ Script = NewService(c).Script
    /\ others = OtherUnits
    /\ \/ /\ enabled = FALSE
          /\ activeState = "inactive"
          /\ liveOpts = Nil
          /\ dirExists = FALSE
          /\ files = NoFiles
       \/ /\ enabled = TRUE
          /\ activeState \in {"inactive", "active"}
          /\ liveOpts = serialize(UnitName, PriorConf)
          /\ dirExists = TRUE
          /\ files = [NoFiles EXCEPT ![ConfPath] = serialize(UnitName, PriorConf)]
    /\ open = 0
    /\ op = [p \in Procs |-> None]
    /\ arg = [p \in Procs |-> ZeroConf]
    /\ pc = [p \in Procs |-> "idle"]
    /\ result = [p \in Procs |-> Pending]
    /\ log = [p \in Procs |-> <<>>]
    /\ pre = [p \in Procs |-> Snapshot]
    /\ hist = [p \in Procs |-> 0]
    /\ ret = [p \in Procs |-> NoRet]
    /\ overlap = FALSE
    /\ job = [p \in Procs |-> None]
    /\ ch = [p \in Procs |-> None]

\* ---------------------------------------------------------------- actions
Idle(p) == pc[p] \in {"idle", "done"}

\* A step of caller p: to position npc, returning res, having made calls evs.
Go(p, npc, res, evs) ==
    /\ pc' = [pc EXCEPT ![p] = npc]
    /\ result' = [result EXCEPT ![p] = res]
    /\ log' = [log EXCEPT ![p] = @ \o evs]
    /\ UNCHANGED <<op, arg, pre, hist, ret, overlap>>

GoTo(p, to, evs) == Go(p, to.pc, to.res, evs)

\* A caller enters Install, Start, Stop, Remove or StopAndRemove.
Call(p, o) ==
    /\ Idle(p)
    /\ op' = [op EXCEPT ![p] = o]
    /\ pc' = [pc EXCEPT ![p] = Entry(o)]
    /\ result' = [result EXCEPT ![p] = Pending]
    /\ log' = [log EXCEPT ![p] = <<>>]
    /\ pre' = [pre EXCEPT ![p] = Snapshot]
    /\ arg' = [arg EXCEPT ![p] = ZeroConf]
    /\ hist' = [hist EXCEPT ![p] =
                  IF op[p] = "Install" /\ result[p] = Ok THEN 1
                  ELSE IF op[p] = "UpdateConfig" /\ o = "Install" THEN @ ELSE 0]
    /\ ret' = [ret EXCEPT ![p] = NoRet]
    /\ overlap' = (overlap \/ \E q \in Procs \ {p} : ~Idle(q))
    /\ UNCHANGED <<ctl, backend, fsys, open, jobs>>

\* UpdateConfig(conf): setConf, its error dropped.
UpdateConfig(p, conf) ==
    /\ Idle(p)
    /\ LET new == setConf([Conf |-> Conf, Script |-> Script], conf)
       IN /\ Conf' = new.Conf
          /\ Script' = new.Script
          /\ hist' = [hist EXCEPT ![p] =
                        IF op[p] = "Install" /\ result[p] = Ok
                           /\ <<new.Conf, new.Script>> # <<Conf, Script>>
                        THEN 2 ELSE 0]
    /\ op' = [op EXCEPT ![p] = "UpdateConfig"]
    /\ arg' = [arg EXCEPT ![p] = conf]
    /\ pc' = [pc EXCEPT ![p] = "done"]
    /\ result' = [result EXCEPT ![p] = Ok]
    /\ log' = [log EXCEPT ![p] = <<>>]
    /\ pre' = [pre EXCEPT ![p] = Snapshot]
    /\ ret' = [ret EXCEPT ![p] = NoRet]
    /\ UNCHANGED <<backend, fsys, open, jobs, overlap>>

\* ---- Install
\* Install: if s.Installed() { ... }
InstallInstalled(p) ==
    /\ pc[p] = "i_installed"
    /\ \E o \in InstalledOutcomes :
          Go(p, IF o.val THEN "i_check" ELSE "w_mkdir", Pending, o.evs)
    /\ UNCHANGED <<ctl, backend, fsys, open, jobs>>

\* Install: same, err := s.check(), which is readConf and DeepEqual.
InstallCheck(p) ==
    /\ pc[p] = "i_check"
    /\ \/ Go(p, "done", ErrTrace, <<Ev("readConf", "newConn", FALSE)>>)
       \/ Go(p, "done", ErrTrace,
             <<Ev("readConf", "newConn", TRUE), Ev("readConf", "getUnitOptions", FALSE)>>)
       \/ /\ liveOpts # Nil
          /\ GoTo(p, AfterCheck(DeepEqual(Conf, deserializeOptions(liveOpts))),
                  <<Ev("readConf", "newConn", TRUE), Ev("readConf", "getUnitOptions", TRUE)>>)
    /\ UNCHANGED <<ctl, backend, fsys, open, jobs>>

\* Mutant of WriteMkdir: the error of serialize is dropped.
WriteMkdir_Unchecked(p) ==
    /\ pc[p] = "w_mkdir"
    /\ \/ /\ Go(p, "done", ErrTrace, <<Ev("writeConf", "mkdirAll", FALSE)>>)
          /\ UNCHANGED fsys
       \/ /\ Go(p, IF Script # Nil THEN "w_script" ELSE "w_unit", Pending,
                <<Ev("writeConf", "mkdirAll", TRUE)>>)
          /\ dirExists' = TRUE
          /\ UNCHANGED files
    /\ UNCHANGED <<ctl, backend, open, jobs>>

\* writeConf: serialize, then mkdirAll(s.Dirname).
WriteMkdir(p) ==
    /\ pc[p] = "w_mkdir"
    /\ IF serialize(UnitName, Conf) = Nil
       THEN Go(p, "done", ErrTrace, <<>>) /\ UNCHANGED fsys
       ELSE \/ /\ Go(p, "done", ErrTrace, <<Ev("writeConf", "mkdirAll", FALSE)>>)
               /\ UNCHANGED fsys
            \/ /\ Go(p, IF Script # Nil THEN "w_script" ELSE "w_unit", Pending,
                     <<Ev("writeConf", "mkdirAll", TRUE)>>)
               /\ dirExists' = TRUE
               /\ UNCHANGED files
    /\ UNCHANGED <<ctl, backend, open, jobs>>

\* writeConf: createFile(s.Service.Conf.ExecStart, s.Script, 0755).
WriteScript(p) ==
    /\ pc[p] = "w_script"
    /\ \/ /\ Go(p, "done", ErrTrace, <<Ev("writeConf", "createScript", FALSE)>>)
          /\ UNCHANGED fsys
       \/ /\ dirExists
          /\ Go(p, "w_unit", Pending, <<Ev("writeConf", "createScript", TRUE)>>)
          /\ files' = IF FileAt(Conf.ExecStart) \in DOMAIN files
                      THEN [files EXCEPT ![FileAt(Conf.ExecStart)] = Script]
                      ELSE files
          /\ UNCHANGED dirExists
    /\ UNCHANGED <<ctl, backend, open, jobs>>

\* Mutant of WriteUnit: Install goes on to enable though the unit file
\* could not be written.
WriteUnit_IgnoreError(p) ==
    /\ pc[p] = "w_unit"
    /\ \/ /\ Go(p, "i_enable", Pending, <<Ev("writeConf", "createUnitFile", FALSE)>>)
          /\ UNCHANGED fsys
       \/ /\ dirExists
          /\ Go(p, "i_enable", Pending, <<Ev("writeConf", "createUnitFile", TRUE)>>)
          /\ files' = [files EXCEPT ![ConfPath] = serialize(UnitName, Conf)]
          /\ UNCHANGED dirExists
    /\ UNCHANGED <<ctl, backend, open, jobs>>

\* writeConf: createFile(filename, data, 0644).
WriteUnit(p) ==
    /\ pc[p] = "w_unit"
    /\ \/ /\ Go(p, "done", ErrTrace, <<Ev("writeConf", "createUnitFile", FALSE)>>)
          /\ UNCHANGED fsys
       \/ /\ dirExists
          /\ Go(p, "i_enable", Pending, <<Ev("writeConf", "createUnitFile", TRUE)>>)
          /\ files' = [files EXCEPT ![ConfPath] = serialize(UnitName, Conf)]
          /\ UNCHANGED dirExists
    /\ UNCHANGED <<ctl, backend, open, jobs>>

\* Mutant of InstallEnable: the unit is enabled and started at once.
InstallEnable_Now(p) ==
    /\ pc[p] = "i_enable"
    /\ \/ /\ Go(p, "done", ErrTrace, <<Ev("Install", "newConn", FALSE)>>)
          /\ UNCHANGED backend
       \/ /\ Go(p, "done", ErrTrace,
                <<Ev("Install", "newConn", TRUE), Ev("Install", "EnableUnitFiles", FALSE)>>)
          /\ UNCHANGED backend
       \/ /\ files[ConfPath] # Nil
          /\ Go(p, "done", Ok,
                <<Ev("Install", "newConn", TRUE), Ev("Install", "EnableUnitFiles", TRUE)>>)
          /\ enabled' = TRUE
          /\ liveOpts' = files[ConfPath]
          /\ activeState' = "active"
          /\ UNCHANGED others
    /\ UNCHANGED <<ctl, fsys, open, jobs>>

\* Mutant of InstallEnable: the written files are deleted when
\* EnableUnitFiles fails.
InstallEnable_Rollback(p) ==
    /\ pc[p] = "i_enable"
    /\ \/ /\ Go(p, "done", ErrTrace, <<Ev("Install", "newConn", FALSE)>>)
          /\ UNCHANGED <<backend, fsys>>
       \/ /\ Go(p, "done", ErrTrace,
                <<Ev("Install", "newConn", TRUE), Ev("Install", "EnableUnitFiles", FALSE)>>)
          /\ dirExists' = FALSE
          /\ files' = NoFiles
          /\ UNCHANGED backend
       \/ /\ files[ConfPath] # Nil
          /\ Go(p, "done", Ok,
                <<Ev("Install", "newConn", TRUE), Ev("Install", "EnableUnitFiles", TRUE)>>)
          /\ enabled' = TRUE
          /\ liveOpts' = files[ConfPath]
          /\ UNCHANGED <<others, activeState, fsys>>
    /\ UNCHANGED <<ctl, open, jobs>>

\* Install: newConn, conn.EnableUnitFiles([]string{filename}, false, true).
\* The backend loads the unit from the file it is given.
InstallEnable(p) ==
    /\ pc[p] = "i_enable"
    /\ \/ /\ Go(p, "done", ErrTrace, <<Ev("Install", "newConn", FALSE)>>)
          /\ UNCHANGED backend
       \/ /\ Go(p, "done", ErrTrace,
                <<Ev("Install", "newConn", TRUE), Ev("Install", "EnableUnitFiles", FALSE)>>)
          /\ UNCHANGED backend
       \/ /\ files[ConfPath] # Nil
          /\ Go(p, "done", Ok,
                <<Ev("Install", "newConn", TRUE), Ev("Install", "EnableUnitFiles", TRUE)>>)
          /\ enabled' = TRUE
          /\ liveOpts' = files[ConfPath]
          /\ UNCHANGED <<others, activeState>>
    /\ UNCHANGED <<ctl, fsys, open, jobs>>

\* ---- Stop
\* Stop: if !s.Running() { return nil }
StopRunning(p) ==
    /\ pc[p] = "s_running"
    /\ \E o \in RunningOutcomes :
          IF o.val THEN Go(p, "s_stopunit", Pending, o.evs)
          ELSE GoTo(p, AfterStop(op[p], Ok), o.evs)
    /\ UNCHANGED <<ctl, backend, fsys, open, jobs>>

\* Stop: newConn, conn.StopUnit(s.UnitName, "fail", statusCh).
StopUnit(p) ==
    /\ pc[p] = "s_stopunit"
    /\ \/ /\ GoTo(p, AfterStop(op[p], ErrTrace), <<Ev("Stop", "newConn", FALSE)>>)
          /\ UNCHANGED <<open, jobs>>
       \/ /\ GoTo(p, AfterStop(op[p], ErrTrace),
                  <<Ev("Stop", "newConn", TRUE), Ev("Stop", "StopUnit", FALSE)>>)
          /\ UNCHANGED <<open, jobs>>
       \/ /\ enabled
          /\ Go(p, "s_wait", Pending,
                <<Ev("Stop", "newConn", TRUE), Ev("Stop", "StopUnit", TRUE)>>)
          /\ open' = open + 1
          /\ job' = [job EXCEPT ![p] = "stop"]
          /\ UNCHANGED ch
    /\ UNCHANGED <<ctl, backend, fsys>>

\* Stop: status := <-statusCh, and the deferred conn.Close().
StopWait(p) ==
    /\ pc[p] = "s_wait"
    /\ ch[p] # None
    /\ GoTo(p, AfterStop(op[p], StopResult(ch[p])), <<Recv("Stop", ch[p])>>)
    /\ ch' = [ch EXCEPT ![p] = None]
    /\ open' = open - 1
    /\ UNCHANGED <<ctl, backend, fsys, job>>

\* ---- Remove
\* Remove: if !s.Installed() { return nil }
RemoveInstalled(p) ==
    /\ pc[p] = "r_installed"
    /\ \E o \in InstalledOutcomes :
          IF o.val THEN Go(p, "r_disable", Pending, o.evs)
          ELSE GoTo(p, AfterRemove(op[p], Ok), o.evs)
    /\ UNCHANGED <<ctl, backend, fsys, open, jobs>>

\* Remove: newConn, conn.DisableUnitFiles([]string{s.UnitName}, false).
\* The connection stays open until Remove returns.
RemoveDisable(p) ==
    /\ pc[p] = "r_disable"
    /\ \/ /\ GoTo(p, AfterRemove(op[p], ErrTrace), <<Ev("Remove", "newConn", FALSE)>>)
          /\ UNCHANGED <<backend, open>>
       \/ /\ LET to == AfterDisable(op[p], FALSE)
             IN /\ GoTo(p, to, <<Ev("Remove", "newConn", TRUE),
                                 Ev("Remove", "DisableUnitFiles", FALSE)>>)
                /\ open' = IF to.pc = "r_rmdir" THEN open + 1 ELSE open
          /\ UNCHANGED backend
       \/ /\ LET to == AfterDisable(op[p], TRUE)
             IN /\ GoTo(p, to, <<Ev("Remove", "newConn", TRUE),
                                 Ev("Remove", "DisableUnitFiles", TRUE)>>)
                /\ open' = IF to.pc = "r_rmdir" THEN open + 1 ELSE open
          /\ enabled' = FALSE
          /\ liveOpts' = Nil
          /\ UNCHANGED <<others, activeState>>
    /\ UNCHANGED <<ctl, fsys, jobs>>

\* Mutant of RemoveDir: the connection is closed only when removeAll
\* succeeded.
RemoveDir_Leak(p) ==
    /\ pc[p] = "r_rmdir"
    /\ \/ /\ GoTo(p, AfterRemove(op[p], ErrTrace), <<Ev("Remove", "removeAll", FALSE)>>)
          /\ UNCHANGED <<fsys, open>>
       \/ /\ GoTo(p, AfterRemove(op[p], Ok), <<Ev("Remove", "removeAll", TRUE)>>)
          /\ dirExists' = FALSE
          /\ files' = NoFiles
          /\ open' = open - 1
    /\ UNCHANGED <<ctl, backend, jobs>>

\* Remove: removeAll(s.Dirname), and the deferred conn.Close().
RemoveDir(p) ==
    /\ pc[p] = "r_rmdir"
    /\ \/ /\ GoTo(p, AfterRemove(op[p], ErrTrace), <<Ev("Remove", "removeAll", FALSE)>>)
          /\ UNCHANGED fsys
       \/ /\ GoTo(p, AfterRemove(op[p], Ok), <<Ev("Remove", "removeAll", TRUE)>>)
          /\ dirExists' = FALSE
          /\ files' = NoFiles
    /\ open' = open - 1
    /\ UNCHANGED <<ctl, backend, jobs>>

\* ---- Start
\* Start: if !s.Installed() { return errors.NotFoundf(...) }
StartInstalled(p) ==
    /\ pc[p] = "st_installed"
    /\ \E o \in InstalledOutcomes : GoTo(p, AfterStartInstalled(o.val), o.evs)
    /\ UNCHANGED <<ctl, backend, fsys, open, jobs>>

\* Start: if s.Running() { return nil }
StartRunning(p) ==
    /\ pc[p] = "st_running"
    /\ \E o \in RunningOutcomes : GoTo(p, AfterStartRunning(o.val), o.evs)
    /\ UNCHANGED <<ctl, backend, fsys, open, jobs>>

\* Start: newConn, conn.StartUnit(s.UnitName, "fail", statusCh).
StartUnit(p) ==
    /\ pc[p] = "st_startunit"
    /\ \/ /\ Go(p, "done", ErrTrace, <<Ev("Start", "newConn", FALSE)>>)
          /\ UNCHANGED <<open, jobs>>
       \/ /\ Go(p, "done", ErrTrace,
                <<Ev("Start", "newConn", TRUE), Ev("Start", "StartUnit", FALSE)>>)
          /\ UNCHANGED <<open, jobs>>
       \/ /\ enabled
          /\ Go(p, "st_wait", Pending,
                <<Ev("Start", "newConn", TRUE), Ev("Start", "StartUnit", TRUE)>>)
          /\ open' = open + 1
          /\ job' = [job EXCEPT ![p] = "start"]
          /\ UNCHANGED ch
    /\ UNCHANGED <<ctl, backend, fsys>>

\* Mutant of StartWait: Start gives up the wait when nothing has arrived.
StartWait_GiveUp(p) ==
    /\ pc[p] = "st_wait"
    /\ Go(p, "done", StartResult(ch[p]), <<Recv("Start", ch[p])>>)
    /\ ch' = [ch EXCEPT ![p] = None]
    /\ open' = open - 1
    /\ UNCHANGED <<ctl, backend, fsys, job>>

\* Start: status := <-statusCh, and the deferred conn.Close().
StartWait(p) ==
    /\ pc[p] = "st_wait"
    /\ ch[p] # None
    /\ Go(p, "done", StartResult(ch[p]), <<Recv("Start", ch[p])>>)
    /\ ch' = [ch EXCEPT ![p] = None]
    /\ open' = open - 1
    /\ UNCHANGED <<ctl, backend, fsys, job>>

\* ---- queries
\* A query of caller p: it returns val or names with the error res, having
\* made the calls evs; its connection is opened and closed within the step.
Query(p, q, val, names, res, evs) ==
    /\ Idle(p)
    /\ op' = [op EXCEPT ![p] = q]
    /\ pc' = [pc EXCEPT ![p] = "done"]
    /\ result' = [result EXCEPT ![p] = res]
    /\ ret' = [ret EXCEPT ![p] = [val |-> val, names |-> names]]
    /\ log' = [log EXCEPT ![p] = evs]
    /\ pre' = [pre EXCEPT ![p] = Snapshot]
    /\ arg' = [arg EXCEPT ![p] = ZeroConf]
    /\ hist' = [hist EXCEPT ![p] = 0]
    /\ UNCHANGED <<ctl, backend, fsys, open, jobs, overlap>>

\* ListServices()
ListServices(p) ==
    \E o \in ListServicesOutcomes :
        Query(p, "ListServices", FALSE, o.names, IF o.err THEN ErrTrace ELSE Ok, o.evs)

\* s.Installed()
Installed(p) ==
    \E o \in InstalledOutcomes : Query(p, "Installed", o.val, <<>>, Ok, o.evs)

\* s.Exists()
Exists(p) ==
    \E o \in ExistsOutcomes(Conf, liveOpts) : Query(p, "Exists", o.val, <<>>, Ok, o.evs)

\* s.Running()
Running(p) ==
    \E o \in RunningOutcomes : Query(p, "Running", o.val, <<>>, Ok, o.evs)

\* ---- backend
\* The backend finishes an accepted job and sends its completion value.
Deliver(p) ==
    /\ job[p] # None
    /\ ch[p] = None
    /\ \E v \in Completions :
          /\ ch' = [ch EXCEPT ![p] = v]
          /\ activeState' =
                IF job[p] = "start"
                THEN (IF v = "done" THEN "active" ELSE activeState)
                ELSE (IF v = "done" THEN "inactive" ELSE activeState)
    /\ job' = [job EXCEPT ![p] = None]
    /\ UNCHANGED <<ctl, others, enabled, liveOpts, fsys, open, calls>>

\* ------------------------------------------------------------------- spec
Step(p) ==
    \/ \E o \in Methods : Call(p, o)
    \/ \E c \in InputConfs : UpdateConfig(p, c)
    \/ InstallInstalled(p)
    \/ InstallCheck(p)
    \/ WriteMkdir(p)
    \/ WriteScript(p)
    \/ WriteUnit(p)
    \/ InstallEnable(p)
    \/ StopRunning(p)
    \/ StopUnit(p)
    \/ StopWait(p)
    \/ RemoveInstalled(p)
    \/ RemoveDisable(p)
    \/ RemoveDir(p)
    \/ StartInstalled(p)
    \/ StartRunning(p)
    \/ StartUnit(p)
    \/ StartWait(p)
    \/ ListServices(p)
    \/ Installed(p)
    \/ Exists(p)
    \/ Running(p)
    \/ Deliver(p)

\* One caller at a time: the serialized use the controller asks for.
Next == Step(1)

Spec == Init /\ [][Next]_vars

\* ---- two callers that are not serialized
\* The steps of a caller that runs Install.
InstallSteps(p) ==
    \/ Call(p, "Install")
    \/ InstallInstalled(p)
    \/ InstallCheck(p)
    \/ StopRunning(p)
    \/ StopUnit(p)
    \/ StopWait(p)
    \/ RemoveInstalled(p)
    \/ RemoveDisable(p)
    \/ RemoveDir(p)
    \/ WriteMkdir(p)
    \/ WriteScript(p)
    \/ WriteUnit(p)
    \/ InstallEnable(p)
    \/ Deliver(p)

\* The steps of a caller that runs Remove.
RemoveSteps(p) ==
    \/ Call(p, "Remove")
    \/ RemoveInstalled(p)
    \/ RemoveDisable(p)
    \/ RemoveDir(p)

\* Caller 1 installs and caller 2 removes the same service; the controller
\* takes no lock, so their steps interleave freely.
NextRace == InstallSteps(1) \/ RemoveSteps(2)

SpecRace == Init /\ [][NextRace]_vars

\* ---- Start and Stop against a backend that finishes every job
\* The steps a caller takes inside Start and Stop.
Returns(p) ==
    \/ StartInstalled(p)
    \/ StartRunning(p)
    \/ StartUnit(p)
    \/ StartWait(p)
    \/ StopRunning(p)
    \/ StopUnit(p)
    \/ StopWait(p)

\* A caller that starts and stops the service.
StartStopSteps(p) ==
    \/ Call(p, "Start")
    \/ Call(p, "Stop")
    \/ Returns(p)

NextWait == StartStopSteps(1) \/ Deliver(1)

\* The caller's code runs on whenever it can take a step, and the backend
\* sends a completion value for every job it accepted.
SpecWait ==
    Init /\ [][NextWait]_vars /\ WF_vars(Returns(1)) /\ WF_vars(Deliver(1))

\* ---- ListServices over the unit lists a backend may report
\* Unit names with the suffix, made of the suffix alone, of another unit
\* type, without the dot, and with the suffix in the middle.
UnitNames ==
    { <<"b">> \o Suffix,
      Suffix,
      <<"b", ".", "m", "o", "u", "n", "t">>,
      <<"s", "e", "r", "v", "i", "c", "e">>,
      <<"b">> \o Suffix \o <<".", "d">> }

UnitLists ==
    UNION { [1..n -> [Name : UnitNames, LoadState : {"loaded"}, ActiveState : {"active"}]] :
              n \in 0..MaxUnits }

\* A Service whose unit is not installed, the backend reporting any list.
InitList ==
    /\ others \in UnitLists
    /\ Conf = NewService(PriorConf).Conf
    /\ Script = NewService(PriorConf).Script
    /\ enabled = FALSE
    /\ activeState = "inactive"
    /\ liveOpts = Nil
    /\ dirExists = FALSE
    /\ files = NoFiles
    /\ open = 0
    /\ op = [p \in Procs |-> None]
    /\ arg = [p \in Procs |-> ZeroConf]
    /\ pc = [p \in Procs |-> "idle"]
    /\ result = [p \in Procs |-> Pending]
    /\ log = [p \in Procs |-> <<>>]
    /\ pre = [p \in Procs |-> Snapshot]
    /\ hist = [p \in Procs |-> 0]
    /\ ret = [p \in Procs |-> NoRet]
    /\ overlap = FALSE
    /\ job = [p \in Procs |-> None]
    /\ ch = [p \in Procs |-> None]

NextList == ListServices(1)

SpecList == InitList /\ [][NextList]_vars

\* ------------------------------------------------- vocabulary of the claims
Done(p) == pc[p] = "done"
Events(p, e) == {i \in DOMAIN log[p] : log[p][i].ev = e}
Issued(p, e) == Events(p, e) # {}
Succeeded(p, e) == \E i \in Events(p, e) : log[p][i].ok
\* A call to the backend or the filesystem failed during the call.
CallFailed(p) == \E i \in DOMAIN log[p] : log[p][i].ev # "recv" /\ ~log[p][i].ok
\* A call failed or a job did not complete with "done".
Faulty(p) == \E i \in DOMAIN log[p] : ~log[p][i].ok
FailedBy(p, by) == \E i \in DOMAIN log[p] : log[p][i].by = by /\ ~log[p][i].ok
Received(p, v) == \E i \in Events(p, "recv") : log[p][i].val = v
\* Every e1 of the call comes before every e2 of the call.
Before(p, e1, e2) == \A i \in Events(p, e1), j \in Events(p, e2) : i < j
Contains(s, sub) ==
    \E i \in 1..(Len(s) - Len(sub) + 1) : SubSeq(s, i, i + Len(sub) - 1) = sub

Effects == {"StartUnit", "StopUnit", "DisableUnitFiles", "removeAll", "mkdirAll",
            "createScript", "createUnitFile", "EnableUnitFiles"}
NoEffects(p) == \A i \in DOMAIN log[p] : log[p][i].ev \notin Effects

\* What Exists() answers for a Service holding conf when the backend answers.
ExistsFor(conf, is, opts) == is /\ opts # Nil /\ DeepEqual(conf, deserializeOptions(opts))
ExistsNow == ExistsFor(Conf, enabled, liveOpts)
ExistedAtEntry(p) == ExistsFor(Conf, pre[p].enabled, pre[p].liveOpts)
RunningAtEntry(p) == pre[p].enabled /\ pre[p].activeState = "active"
OurUnits == {i \in DOMAIN ListUnits : ListUnits[i].Name = UnitName}

\* --------------------------------------------------------------------- C1
\* C1: an Install that returns success leaves Exists() true, and an Install
\* that follows a successful Install with the same configuration, the backend
\* answering every call, returns success having made no stop, disable,
\* removal, write or enable, with exactly one unit and one directory.
C1_InstallIdempotent ==
    \A p \in Procs :
        (Done(p) /\ op[p] = "Install") =>
            /\ result[p] = Ok => ExistsNow
            /\ (hist[p] = 1 /\ ~Faulty(p)) =>
                  /\ result[p] = Ok
                  /\ NoEffects(p)
                  /\ ExistsNow
                  /\ Cardinality(OurUnits) = 1
                  /\ dirExists

C1_Witness ==
    \E p \in Procs :
        /\ Done(p) /\ op[p] = "Install" /\ hist[p] = 1 /\ ~Faulty(p)
        /\ result[p] = Ok /\ Script # Nil

\* --------------------------------------------------------------------- C2
\* C2: an Install that follows a successful Install and an UpdateConfig that
\* changed the configuration, the backend answering every call and finishing
\* every job, returns success having stopped the old unit if it ran, disabled
\* it and deleted its directory before writing and enabling the new unit
\* file; then Exists() is true for the new configuration and false for a
\* Service holding the old one.
C2_ReconcileOrder ==
    \A p \in Procs :
        (Done(p) /\ op[p] = "Install" /\ hist[p] = 2 /\ ~Faulty(p)) =>
            /\ result[p] = Ok
            /\ RunningAtEntry(p) => Succeeded(p, "StopUnit") /\ Received(p, "done")
            /\ Succeeded(p, "DisableUnitFiles")
            /\ Succeeded(p, "removeAll")
            /\ Succeeded(p, "createUnitFile")
            /\ Succeeded(p, "EnableUnitFiles")
            /\ Before(p, "StopUnit", "DisableUnitFiles")
            /\ Before(p, "DisableUnitFiles", "removeAll")
            /\ Before(p, "removeAll", "createUnitFile")
            /\ Before(p, "createUnitFile", "EnableUnitFiles")
            /\ ExistsNow
            /\ ~ExistsFor(deserializeOptions(pre[p].liveOpts), enabled, liveOpts)

\* C2, for the updates that change the normalized configuration: there the
\* reconciliation happens as described.
C2_ReconcileWhenConfDiffers ==
    \A p \in Procs :
        (Done(p) /\ op[p] = "Install" /\ hist[p] = 2 /\ ~Faulty(p)
         /\ ~ExistedAtEntry(p)) =>
            /\ result[p] = Ok
            /\ RunningAtEntry(p) => Succeeded(p, "StopUnit") /\ Received(p, "done")
            /\ Succeeded(p, "DisableUnitFiles")
            /\ Succeeded(p, "removeAll")
            /\ Succeeded(p, "EnableUnitFiles")
            /\ Before(p, "StopUnit", "DisableUnitFiles")
            /\ Before(p, "DisableUnitFiles", "removeAll")
            /\ Before(p, "removeAll", "createUnitFile")
            /\ Before(p, "createUnitFile", "EnableUnitFiles")
            /\ ExistsNow
            /\ ~ExistsFor(deserializeOptions(pre[p].liveOpts), enabled, liveOpts)

\* --------------------------------------------------------------------- C3
\* C3: a Start entered while the unit is not installed returns the not-found
\* error, whose message names the service, and makes no StartUnit call.
C3_StartNotFound ==
    \A p \in Procs :
        (Done(p) /\ op[p] = "Start" /\ ~pre[p].enabled) =>
            /\ result[p].kind = "notfound"
            /\ Contains(result[p].msg, Name)
            /\ ~Issued(p, "StartUnit")

C3_Witness ==
    \E p \in Procs :
        /\ Done(p) /\ op[p] = "Start" /\ ~pre[p].enabled /\ ~Faulty(p)
        /\ result[p].kind = "notfound"

\* --------------------------------------------------------------------- C4
\* C4: a Start entered while the unit is listed, loaded and active, the
\* backend answering every call, returns success, makes no StartUnit call
\* and leaves the backend's unit as it was.
C4_StartNoopWhenRunning ==
    \A p \in Procs :
        (Done(p) /\ op[p] = "Start" /\ RunningAtEntry(p) /\ ~Faulty(p)) =>
            /\ result[p] = Ok
            /\ ~Issued(p, "StartUnit")
            /\ Snapshot = pre[p]
            /\ RunningIn(ListUnits)

C4_Witness ==
    \E p \in Procs :
        /\ Done(p) /\ op[p] = "Start" /\ RunningAtEntry(p) /\ ~Faulty(p)
        /\ result[p] = Ok

\* --------------------------------------------------------------------- C5
\* C5: a Start whose StartUnit call was accepted returns success exactly when
\* the completion value it received is "done", and otherwise an error naming
\* the service; a Start whose connection or StartUnit call failed returns an
\* error.
C5_StartCompletion ==
    \A p \in Procs :
        (Done(p) /\ op[p] = "Start") =>
            /\ Succeeded(p, "StartUnit") =>
                  /\ result[p] = Ok <=> Received(p, "done")
                  /\ ~Received(p, "done") =>
                        result[p].kind = "error" /\ Contains(result[p].msg, Name)
            /\ FailedBy(p, "Start") => result[p].kind = "error"

C5_Witness ==
    \E p \in Procs :
        /\ Done(p) /\ op[p] = "Start" /\ pre[p].enabled /\ ~RunningAtEntry(p)
        /\ Received(p, "timeout") /\ result[p].kind = "error"

\* --------------------------------------------------------------------- C6
\* C6: a Stop entered while the unit is not running returns success and
\* makes no StopUnit call; a Stop entered while it is running, its calls to
\* the backend answered, makes exactly one StopUnit call and returns success
\* exactly when the completion value it received is "done".
C6_StopContract ==
    \A p \in Procs :
        (Done(p) /\ op[p] = "Stop") =>
            /\ ~RunningAtEntry(p) => result[p] = Ok /\ ~Issued(p, "StopUnit")
            /\ (RunningAtEntry(p) /\ ~CallFailed(p)) =>
                  /\ Cardinality(Events(p, "StopUnit")) = 1
                  /\ Cardinality(Events(p, "recv")) = 1
                  /\ result[p] = Ok <=> Received(p, "done")

C6_Witness ==
    \E p \in Procs :
        /\ Done(p) /\ op[p] = "Stop" /\ RunningAtEntry(p) /\ ~CallFailed(p)
        /\ Received(p, "failed") /\ result[p].kind = "error"

\* --------------------------------------------------------------------- C7
\* C7: a Remove entered while the unit is not installed returns success
\* without a DisableUnitFiles or a removeAll call; in every call removeAll
\* comes only after a DisableUnitFiles call of the same Remove that
\* succeeded; a Remove of an installed unit, its calls answered, disables
\* the unit and then deletes the directory.
C7_RemoveOrder ==
    \A p \in Procs :
        /\ (Done(p) /\ op[p] = "Remove" /\ ~pre[p].enabled) =>
              /\ result[p] = Ok
              /\ ~Issued(p, "DisableUnitFiles")
              /\ ~Issued(p, "removeAll")
        /\ \A i \in Events(p, "removeAll") :
              /\ i > 1
              /\ log[p][i - 1].ev = "DisableUnitFiles"
              /\ log[p][i - 1].ok
        /\ (Done(p) /\ op[p] = "Remove" /\ pre[p].enabled /\ ~CallFailed(p)) =>
              /\ result[p] = Ok
              /\ Succeeded(p, "DisableUnitFiles")
              /\ Succeeded(p, "removeAll")
              /\ ~enabled /\ ~dirExists

C7_Witness ==
    \E p \in Procs :
        /\ Done(p) /\ op[p] = "Remove" /\ pre[p].enabled
        /\ Succeeded(p, "removeAll")

\* --------------------------------------------------------------------- C8
\* C8: StopAndRemove makes the calls of Stop before those of Remove; when
\* its Stop fails it returns an error and makes no call of Remove, so no
\* DisableUnitFiles and no removeAll; when its Stop succeeds it returns
\* what its Remove returns.
C8_StopAndRemoveShortCircuit ==
    \A p \in Procs :
        (Done(p) /\ op[p] = "StopAndRemove") =>
            /\ \A i, j \in DOMAIN log[p] :
                  (log[p][i].by \in {"Running", "Stop"}
                   /\ log[p][j].by \in {"ListServices", "Remove"}) => i < j
            /\ FailedBy(p, "Stop") =>
                  /\ result[p].kind = "error"
                  /\ ~Issued(p, "DisableUnitFiles")
                  /\ ~Issued(p, "removeAll")
                  /\ \A i \in DOMAIN log[p] : log[p][i].by \in {"Running", "Stop"}
            /\ ~FailedBy(p, "Stop") =>
                  /\ \E i \in DOMAIN log[p] : log[p][i].by = "ListServices"
                  /\ result[p] = (IF FailedBy(p, "Remove") THEN ErrTrace ELSE Ok)

C8_Witness ==
    \E p \in Procs :
        /\ Done(p) /\ op[p] = "StopAndRemove" /\ RunningAtEntry(p)
        /\ Received(p, "failed") /\ result[p].kind = "error" /\ enabled

\* --------------------------------------------------------------------- C9
\* C9: an Install by a Service whose configuration does not validate makes
\* no createFile call for the script or the unit file and no
\* EnableUnitFiles call, and returns an error.
C9_InvalidBlocksInstall ==
    \A p \in Procs :
        (op[p] = "Install" /\ ~validate(Name, Conf)) =>
            /\ ~Issued(p, "mkdirAll")
            /\ ~Issued(p, "createScript")
            /\ ~Issued(p, "createUnitFile")
            /\ ~Issued(p, "EnableUnitFiles")
            /\ Done(p) => result[p].kind = "error"

C9_Witness ==
    \E p \in Procs :
        /\ Done(p) /\ op[p] = "Install" /\ ~validate(Name, Conf)
        /\ ~pre[p].enabled /\ ~CallFailed(p) /\ result[p].kind = "error"

\* -------------------------------------------------------------------- C10
\* C10: a step that is an UpdateConfig leaves the backend, the filesystem,
\* the connections and the jobs as they were and logs no call; when the
\* normalized argument validates, Conf and Script become the normalized
\* argument and its script bytes, and otherwise both stay as they were.
C10_UpdateConfigFrame ==
    [][\A p \in Procs :
          (Idle(p) /\ pc'[p] = "done" /\ op'[p] = "UpdateConfig") =>
              LET n == normalize(arg'[p], ScriptPath)
              IN /\ UNCHANGED <<backend, fsys, open, jobs>>
                 /\ log'[p] = <<>>
                 /\ IF n.conf.ExecStart # <<>>
                    THEN Conf' = n.conf /\ Script' = n.data
                    ELSE UNCHANGED <<Conf, Script>>]_vars

C10_Witness ==
    \E p \in Procs :
        /\ Done(p) /\ op[p] = "UpdateConfig"
        /\ arg[p].ExecStart = <<>> /\ Conf # ZeroConf /\ Script # Nil /\ enabled

\* -------------------------------------------------------------------- C11
\* What Installed() answers when the backend answers: the name is among the
\* names ListServices returns.
InstalledNow == InstalledIn(ServiceNames(ListUnits))

Holding == {"s_wait", "st_wait", "r_rmdir"}

\* C12: the open connections are exactly those of the calls that are
\* waiting for a completion value or about to delete the directory, so no
\* connection is open when every caller has returned, whatever the exit.
C12_ConnectionsReleased ==
    /\ open = Cardinality({p \in Procs : pc[p] \in Holding})
    /\ (\A p \in Procs : Idle(p)) => open = 0

C12_Witness ==
    \E p \in Procs :
        /\ Done(p) /\ op[p] = "Install" /\ result[p].kind = "error"
        /\ Received(p, "done") /\ Succeeded(p, "DisableUnitFiles")
        /\ Issued(p, "removeAll") /\ ~Succeeded(p, "removeAll")
        /\ open = 0

\* -------------------------------------------------------------------- C13
\* A call to the backend failed inside one of the queries Installed() and
\* Running() that the call made.
QueryFailed(p) == FailedBy(p, "ListServices") \/ FailedBy(p, "Running")

\* C13: a Start, Stop, Remove, StopAndRemove or Install during which a
\* connection or a call to the backend failed returns an error; a Stop that
\* returns success without a StopUnit call was entered with the unit not
\* running, and a Remove that returns success without a DisableUnitFiles
\* call was entered with the unit not installed.
C13_NoSwallowedErrors ==
    \A p \in Procs :
        (Done(p) /\ op[p] \in Methods) =>
            /\ CallFailed(p) => result[p].kind \in {"error", "notfound"}
            /\ (op[p] = "Stop" /\ result[p] = Ok /\ ~Issued(p, "StopUnit")) =>
                  ~RunningAtEntry(p)
            /\ (op[p] = "Remove" /\ result[p] = Ok /\ ~Issued(p, "DisableUnitFiles")) =>
                  ~pre[p].enabled

\* C13, for the calls made outside Installed() and Running(): their failure
\* is returned.
C13_ReturnedOutsideQueries ==
    \A p \in Procs :
        (Done(p) /\ op[p] \in Methods /\ CallFailed(p) /\ ~QueryFailed(p)) =>
            result[p].kind = "error"

\* -------------------------------------------------------------------- C14
\* C14: an Install that deleted the directory of the old unit and did not
\* get the new unit enabled returns an error; the unit is then not enabled
\* and not enumerated, no StartUnit or later removeAll call was made, a unit
\* it stopped stays inactive, and the directory, the script and the unit
\* file it wrote are still on disk.
C14_NoRollback ==
    \A p \in Procs :
        (Done(p) /\ op[p] = "Install" /\ Succeeded(p, "removeAll")
         /\ ~Succeeded(p, "EnableUnitFiles")) =>
            /\ result[p].kind = "error"
            /\ ~enabled /\ liveOpts = Nil /\ ~InstalledNow
            /\ ~Issued(p, "StartUnit")
            /\ Received(p, "done") => activeState = "inactive"
            /\ Cardinality(Events(p, "removeAll")) = 1
            /\ Before(p, "removeAll", "mkdirAll")
            /\ Succeeded(p, "mkdirAll") => dirExists
            /\ Succeeded(p, "createScript") => files[ScriptFile] = Script
            /\ Succeeded(p, "createUnitFile") =>
                  files[ConfPath] = serialize(UnitName, Conf)

C14_Witness ==
    \E p \in Procs :
        /\ Done(p) /\ op[p] = "Install" /\ RunningAtEntry(p)
        /\ Received(p, "done") /\ Succeeded(p, "removeAll")
        /\ Succeeded(p, "createScript") /\ Succeeded(p, "createUnitFile")
        /\ Issued(p, "EnableUnitFiles") /\ ~Succeeded(p, "EnableUnitFiles")
        /\ result[p].kind = "error"

\* -------------------------------------------------------------------- C15
\* C15: with one caller installing and another removing the same service,
\* the unit is enabled in the backend while its directory is gone only
\* after calls that overlapped: calls made one after another never leave
\* that state.
C15_RaceNeedsOverlap == (enabled /\ ~dirExists) => overlap

\* The interleaved Install and Remove both return success and leave the
\* unit enabled with its directory deleted.
C15_Witness ==
    /\ Done(1) /\ op[1] = "Install" /\ result[1] = Ok
    /\ Done(2) /\ op[2] = "Remove" /\ result[2] = Ok
    /\ pre[2].enabled /\ ~Faulty(1) /\ ~Faulty(2)
    /\ Succeeded(1, "removeAll")
    /\ Succeeded(1, "createUnitFile") /\ Succeeded(1, "EnableUnitFiles")
    /\ Succeeded(2, "DisableUnitFiles") /\ Succeeded(2, "removeAll")
    /\ overlap /\ enabled /\ ~dirExists

\* -------------------------------------------------------------------- C16
\* The positions at which Start and Stop wait for the completion value.
Waiting == {"st_wait", "s_wait"}

\* The connection for the request could not be opened or the backend
\* returned an error for StartUnit or StopUnit.
Rejected(p) ==
    \E i \in DOMAIN log[p] :
        /\ log[p][i].by \in {"Start", "Stop"}
        /\ log[p][i].ev \in {"newConn", "StartUnit", "StopUnit"}
        /\ ~log[p][i].ok

\* C16: a Start or Stop that waits stays waiting while no completion value
\* has been sent, and leaves the wait by receiving the value sent; a call
\* whose connection or request failed returns without having received
\* anything; and with the backend sending a value for every job it
\* accepted, every call that was entered returns.
C16_BlockingWait ==
    /\ [][\A p \in Procs :
            (pc[p] \in Waiting /\ pc'[p] # pc[p]) =>
                /\ ch[p] # None
                /\ log'[p] = Append(log[p], Recv(log[p][Len(log[p])].by, ch[p]))]_vars
    /\ [](\A p \in Procs :
            (Done(p) /\ Rejected(p)) =>
                Events(p, "recv") = {} /\ job[p] = None /\ ch[p] = None)
    /\ \A p \in Procs : (~Idle(p)) ~> Done(p)

C16_Witness ==
    \E p \in Procs :
        /\ Done(p) /\ op[p] = "Stop" /\ RunningAtEntry(p)
        /\ Succeeded(p, "StopUnit") /\ Received(p, "timeout")
        /\ result[p].kind = "error"

\* -------------------------------------------------------------------- C17
\* The name is some string followed by ".service".
CarriesSuffix(n) == \E k \in 0..Len(n) : n = SubSeq(n, 1, k) \o Suffix

\* C17: a ListServices whose connection or ListUnits call failed returns an
\* error and no names; otherwise it returns no error and one name for each
\* unit whose name carries the suffix, in the order of the list, each name
\* followed by the suffix being the unit's name.
C17_SuffixFilter ==
    \A p \in Procs :
        (Done(p) /\ op[p] = "ListServices") =>
            LET units == ListUnits
                kept == {i \in DOMAIN units : CarriesSuffix(units[i].Name)}
                names == ret[p].names
            IN /\ CallFailed(p) => result[p].kind = "error" /\ names = <<>>
               /\ ~CallFailed(p) =>
                     /\ result[p] = Ok
                     /\ Len(names) = Cardinality(kept)
                     /\ \A i \in kept :
                           names[Cardinality({j \in kept : j <= i})] \o Suffix
                               = units[i].Name

C17_Witness ==
    \E p \in Procs :
        /\ Done(p) /\ op[p] = "ListServices" /\ result[p] = Ok
        /\ Len(ListUnits) = 3 /\ Len(ret[p].names) = 2
        /\ ret[p].names[1] = <<>> /\ ret[p].names[2] # <<>>
        /\ ~CarriesSuffix(ListUnits[2].Name)

\* -------------------------------------------------------------------- C18
\* The Installed() that opens the call was answered by the backend.
InstalledAnswered(p) ==
    /\ Len(log[p]) >= 2
    /\ log[p][2].by = "ListServices" /\ log[p][2].ev = "ListUnits" /\ log[p][2].ok

\* Install stopped the old unit if it ran, disabled it, deleted its
\* directory and went on to writeConf, in this order.
Superseded(p) ==
    /\ RunningAtEntry(p) => Succeeded(p, "StopUnit") /\ Received(p, "done")
    /\ Succeeded(p, "DisableUnitFiles")
    /\ Succeeded(p, "removeAll")
    /\ Before(p, "StopUnit", "DisableUnitFiles")
    /\ Before(p, "removeAll", "mkdirAll")
    /\ Issued(p, "mkdirAll") \/ serialize(UnitName, Conf) = Nil

\* C18: an Install entered while the unit is installed and Exists() is
\* false, for whatever reason, and whose Installed() was answered, has
\* stopped and removed the old unit and gone on to write the new one,
\* unless its Stop or its Remove failed.
C18_InstallSupersedes ==
    \A p \in Procs :
        (Done(p) /\ op[p] = "Install" /\ pre[p].enabled /\ ~ExistedAtEntry(p)
         /\ InstalledAnswered(p)) =>
            \/ FailedBy(p, "Stop")
            \/ FailedBy(p, "Remove")
            \/ Superseded(p)

\* C18, when the live configuration was read and every query answered: the
\* old unit is superseded as described.
C18_SupersedesWhenRead ==
    \A p \in Procs :
        (Done(p) /\ op[p] = "Install" /\ pre[p].enabled /\ ~ExistedAtEntry(p)
         /\ ~QueryFailed(p) /\ ~FailedBy(p, "readConf")) =>
            \/ FailedBy(p, "Stop")
            \/ FailedBy(p, "Remove")
            \/ Superseded(p)

\* C18, when the live configuration could not be read: Install returns the
\* error and leaves the old unit as it was.
C18_ReadErrorReturned ==
    \A p \in Procs :
        (Done(p) /\ op[p] = "Install" /\ FailedBy(p, "readConf")) =>
            /\ result[p].kind = "error"
            /\ NoEffects(p)
            /\ Snapshot = pre[p]

EnableCalls(p) == {i \in DOMAIN log[p] : log[p][i].by = "Install"}
AtMostOnce(p, e) == Cardinality(Events(p, e)) <= 1

\* C20: in every Install the directory is created before the script is
\* written, the script before the unit file, the unit file before the
\* connection for enabling is opened, and that connection before the
\* EnableUnitFiles call, each at most once; the script is written exactly
\* when the Service holds script bytes, to the file ExecStart names; the
\* connection is opened only after all the writes succeeded; and an Install
\* whose directory creation or file write failed returns an error having
\* opened no connection for enabling and made no EnableUnitFiles call.
C20_EnableAfterWrites ==
    \A p \in Procs :
        op[p] = "Install" =>
            /\ \A e \in {"mkdirAll", "createScript", "createUnitFile", "EnableUnitFiles"} :
                  AtMostOnce(p, e)
            /\ Before(p, "mkdirAll", "createScript")
            /\ Before(p, "mkdirAll", "createUnitFile")
            /\ Before(p, "createScript", "createUnitFile")
            /\ \A i \in Events(p, "createUnitFile"), j \in EnableCalls(p) : i < j
            /\ \A j \in Events(p, "EnableUnitFiles") :
                  /\ j - 1 \in EnableCalls(p)
                  /\ log[p][j - 1].ev = "newConn" /\ log[p][j - 1].ok
            /\ Issued(p, "createScript") => Script # Nil
            /\ Succeeded(p, "createScript") =>
                  /\ FileAt(Conf.ExecStart) = ScriptFile
                  /\ files[FileAt(Conf.ExecStart)] = Script
            /\ Issued(p, "createUnitFile") =>
                  /\ Succeeded(p, "mkdirAll")
                  /\ Script # Nil => Succeeded(p, "createScript")
            /\ EnableCalls(p) # {} =>
                  /\ Succeeded(p, "mkdirAll")
                  /\ Script # Nil => Succeeded(p, "createScript")
                  /\ Succeeded(p, "createUnitFile")
            /\ FailedBy(p, "writeConf") =>
                  /\ EnableCalls(p) = {}
                  /\ ~Issued(p, "EnableUnitFiles")
                  /\ Done(p) /\ result[p].kind = "error"

C20_Witness ==
    \E p \in Procs :
        /\ Done(p) /\ op[p] = "Install" /\ Script # Nil
        /\ Succeeded(p, "mkdirAll") /\ Succeeded(p, "createScript")
        /\ Issued(p, "createUnitFile") /\ ~Succeeded(p, "createUnitFile")
        /\ EnableCalls(p) = {} /\ result[p].kind = "error"
====
